---- MODULE Spec2Model ----
(***************************************************************************)
(* Model of the adblock-rust-server daemon (src/src/main.rs): the list     *)
(* registry pass (parse_urls / update_list), the engine build and cache    *)
(* (init_engine), the startup sequence (setup_blocker / start_server) and  *)
(* the per-connection sessions (handle_client).                            *)
(*                                                                         *)
(* Files are byte strings.  A write that does not truncate is modelled by  *)
(* Overlay, a whole-file write by replacing the content.                   *)
(***************************************************************************)
EXTENDS Integers, Sequences, FiniteSets, TLC

(***************************************************************************)
(* Bounds of the model.                                                    *)
(***************************************************************************)
\* sessions the listener may accept
MaxConns == 2
\* r and u lines read over all sessions
MaxCommands == 1
\* n lines read over all sessions
MaxQueries == 1
\* wall-clock ticks after Now0
MaxTicks == 1
\* c lines, unknown lines and malformed lines read over all sessions
MaxOtherLines == 1
\* attempts to load the cache file within one init_engine call
MaxCacheTries == 2

\* wall-clock seconds at which the daemon is started
Now0 == 5

\* seconds per day: `* 24 * 3600` in update_list
DaySecs == 86400

(***************************************************************************)
(* Strings.                                                                *)
(***************************************************************************)
Ch(s, i) == SubSeq(s, i, i)

Drop(s, n) == SubSeq(s, n + 1, Len(s))

StartsWith(s, p) == Len(s) >= Len(p) /\ SubSeq(s, 1, Len(p)) = p

\* str::contains
Contains(s, p) == \E i \in 1..(Len(s) - Len(p) + 1) : SubSeq(s, i, i + Len(p) - 1) = p

\* position of the first occurrence of the one-character string c in s, 0 if none
Find(s, c) ==
  LET hits == { i \in 1..Len(s) : Ch(s, i) = c }
  IN  IF hits = {} THEN 0 ELSE CHOOSE i \in hits : \A j \in hits : i <= j

\* BufRead::lines: the text cut at every "\n", the terminator dropped; a
\* last line without terminator is a line too, and the empty text has none
RECURSIVE ReadLines(_)
ReadLines(s) ==
  IF s = "" THEN << >>
  ELSE LET p == Find(s, "\n")
       IN  IF p = 0 THEN << s >>
           ELSE << SubSeq(s, 1, p - 1) >> \o ReadLines(Drop(s, p))

\* str::split(sep): every piece between separators, empty pieces included
RECURSIVE Split(_, _)
Split(s, sep) ==
  LET p == Find(s, sep)
  IN  IF p = 0 THEN << s >>
      ELSE << SubSeq(s, 1, p - 1) >> \o Split(Drop(s, p), sep)

Digits == << "0", "1", "2", "3", "4", "5", "6", "7", "8", "9" >>

IsDigit(c) == \E d \in 1..10 : Digits[d] = c

DigitVal(c) == (CHOOSE d \in 1..10 : Digits[d] = c) - 1

\* str::parse::<u64> succeeds on a non-empty run of decimal digits
ParseOk(s) == Len(s) > 0 /\ \A i \in 1..Len(s) : IsDigit(Ch(s, i))

RECURSIVE ParseU64(_)
ParseU64(s) ==
  IF s = "" THEN 0
  ELSE 10 * ParseU64(SubSeq(s, 1, Len(s) - 1)) + DigitVal(Ch(s, Len(s)))

\* u64::to_string
RECURSIVE U64ToString(_)
U64ToString(n) ==
  IF n < 10 THEN Digits[n + 1]
  ELSE U64ToString(n \div 10) \o Digits[(n % 10) + 1]

\* url.split('/').last()
LastSegment(url) == LET ps == Split(url, "/") IN ps[Len(ps)]

\* a write of `new` at offset 0 of a file opened without truncation
OverlayKeepTail(old, new) == new \o Drop(old, Len(new))

\* a write of `bytes` at offset off of a file that is at least off long
WriteAt(old, off, bytes) == SubSeq(old, 1, off) \o bytes \o Drop(old, off + Len(bytes))

(***************************************************************************)
(* Files and the environment.                                              *)
(***************************************************************************)
NoFile == [ex |-> FALSE, data |-> ""]

File(d) == [ex |-> TRUE, data |-> d]

\* the header parse_urls writes into a registry file it creates
UrlsHeader == "# Add your filter list urls here; lines starting with # will be ignored; timestamps right after urls determine the expiration time\n"

\* the header setup_blocker writes into a custom filters file it creates
CustomHeader == "# Add your custom network and cosmetic filters here, lines starting with # will be ignored\n"

\* the URLs the list fetcher can resolve
Urls == { "a/x", "b/y" }

\* the bodies a fetch may return
Bodies == { "q\n", "r\n! Expires: 1\n" }

\* the files of the lists directory
Names == { "custom" } \cup { LastSegment(u) : u \in Urls }

\* a registry file with no entry to refresh at startup
QuietRegistry == "#c\na/x 9\n"

\* registry files the daemon may find at startup
InitRegistries == { QuietRegistry, "#c\n", "#c\na/x\n", "a/x 9\nb/y 3\n", "a/x 6\n#c\nb/y" }

\* the lists directory a previous run has left: the custom filters, and the
\* list of a/x
InitLists ==
  [ n \in Names |-> IF n = "custom" THEN File("c\n")
                    ELSE IF n = "x" THEN File("r\n! Expires: 1\n")
                    ELSE NoFile ]

\* the request URL of the network queries the clients send
Queries == { "r" }

\* the other lines the clients send: a cosmetic query, lines with an unknown
\* code, n and c lines with fields missing, an n line with an unparsable URL
OtherLines == { "c u i k", "z foo", "", "n r", "c u i", "n  s t" }

\* the selector lists the engine may produce for a cosmetic query
SelectorLists == { << >>, << "a.b" >>, << "a.b", "#c" >>, << "" >> }

(***************************************************************************)
(* The matching engine (the adblock crate), as far as the daemon uses it:  *)
(* an engine is the set of rules of the text it was built from.            *)
(***************************************************************************)
Range(f) == { f[i] : i \in DOMAIN f }

\* FilterSet::add_filter_list + Engine::from_filter_set
Build(rules) ==
  { l \in Range(ReadLines(rules)) : l # "" /\ ~StartsWith(l, "!") /\ ~StartsWith(l, "#") }

\* Engine::check_network_request(..).matched
Matched(engine, reqUrl) == reqUrl \in engine

\* Engine::serialize_raw
Serialize(engine) == << "ars-engine", engine >>

\* a cache file that Engine::deserialize rejects
CorruptCache == << "ars-eng" >>

\* Engine::deserialize
Deserialize(data) ==
  IF Len(data) = 2 /\ data[1] = "ars-engine"
  THEN [ok |-> TRUE, engine |-> data[2]]
  ELSE [ok |-> FALSE, engine |-> {}]

\* the content of a cache file that fs::read cannot read
UnreadableCache == << "EACCES" >>

\* lines 204-205: fs::read of the cache file and Engine::deserialize of its bytes
LoadCache(file) ==
  IF file.data = UnreadableCache THEN [ok |-> FALSE, engine |-> {}]
  ELSE Deserialize(file.data)

\* the cache file of an engine built before the custom filters were edited
StaleCache == File(Serialize({ "r" }))

(***************************************************************************)
(* State.                                                                  *)
(***************************************************************************)
VARIABLES
  now,        \* SystemTime::now(), in seconds
  alive,      \* the daemon process is running
  stdout,     \* the lines printed to standard output
  urlsFile,   \* <config>/urls
  lists,      \* <config>/lists/<name>
  engineFile, \* <config>/engine
  pc,         \* where each thread is
  call,       \* the locals of each thread's setup_blocker call
  blocker,    \* the engine each thread holds (start_server's, handle_client's)
  resp,       \* the last response written on each connection
  cmds,       \* r and u lines read so far
  queries,    \* n lines read so far
  published,  \* history: the last r or u command that returned
  accepted,   \* history: what each connection started with
  lastQuery,  \* history: the last network query of each connection
  bare,       \* history: the URLs whose last refresh returned the bare URL
  io          \* the line waiting in each connection's stream, and history:
              \* the lines each session has read and answered

vars == << now, alive, stdout, urlsFile, lists, engineFile, pc, call, blocker,
           resp, cmds, queries, published, accepted, lastQuery, bare, io >>

fsVars == << urlsFile, lists, engineFile >>

histVars == << published, accepted, lastQuery, bare, io >>

Main == 0

Conns == 1..MaxConns

Threads == { Main } \cup Conns

\* the locals of a thread that is not inside setup_blocker
IdleCall ==
  [ initType |-> "none", lines |-> << >>, idx |-> 0, out |-> "", updated |-> FALSE,
    timestamp |-> 0, body |-> "", torn |-> FALSE, fetches |-> << >>, urls0 |-> NoFile,
    lists0 |-> << >>, bare0 |-> {}, passed |-> FALSE, engine |-> {}, path |-> "none",
    flag |-> FALSE, arg |-> FALSE, frames |-> 0, deser |-> 0, rebuilds |-> 0,
    cache0 |-> NoFile ]

NewCall(ty) == [ IdleCall EXCEPT !.initType = ty ]

NoPublish == [ set |-> FALSE, snap |-> {}, by |-> 0, kind |-> "", open |-> {} ]

NoQuery == [ set |-> FALSE, snap |-> {}, want |-> NoPublish ]

NoAccept == [ set |-> FALSE, got |-> {}, want |-> NoPublish ]

\* no line is waiting in the stream (a line holds no line terminator)
NoLine == "\n"

\* a session that has read no line: the line waiting in its stream, the last
\* line read, the lines read, the responses written, the lines read that are
\* no n, r or u line, the engine and the selectors of the last query, the
\* engine of its last r or u
NoIo ==
  [ pending |-> NoLine, line |-> "", reads |-> 0, writes |-> 0, others |-> 0, used |-> {}, sels |-> << >>,
    own |-> [ set |-> FALSE, snap |-> {} ] ]

\* handle_client has read a line (line 30)
LineRead(r, line) == [ r EXCEPT !.line = line, !.reads = @ + 1 ]

\* handle_client has written a response (line 97)
ResponseWritten(r) == [ r EXCEPT !.writes = @ + 1 ]

Init ==
  /\ now = Now0
  /\ alive = TRUE
  /\ stdout = << >>
  /\ \/ /\ urlsFile = NoFile
        /\ lists = [ n \in Names |-> NoFile ]
        /\ engineFile = NoFile
     \/ /\ urlsFile \in { File(r) : r \in InitRegistries }
        /\ lists = InitLists
        /\ engineFile = StaleCache
     \/ /\ urlsFile = File(QuietRegistry)
        /\ lists = InitLists
        /\ engineFile \in { NoFile, File(CorruptCache), File(UnreadableCache) }
  /\ pc = [ t \in Threads |-> IF t = Main THEN "parse_urls" ELSE "unborn" ]
  /\ call = [ t \in Threads |-> IF t = Main THEN NewCall("Default") ELSE IdleCall ]
  /\ blocker = [ t \in Threads |-> {} ]
  /\ resp = [ c \in Conns |-> "" ]
  /\ cmds = 0
  /\ queries = 0
  /\ published = NoPublish
  /\ accepted = [ c \in Conns |-> NoAccept ]
  /\ lastQuery = [ c \in Conns |-> NoQuery ]
  /\ bare = {}
  /\ io = [ c \in Conns |-> NoIo ]

(***************************************************************************)
(* A panic (a failed unwrap or expect) unwinds the thread it happens in:   *)
(* in main it ends the process, in a thread::spawn'ed session only that    *)
(* thread.                                                                 *)
(***************************************************************************)
PanicAbortsProcess(t) ==
  /\ pc' = [ pc EXCEPT ![t] = "panicked" ]
  /\ alive' = FALSE

Panic(t) ==
  /\ pc' = [ pc EXCEPT ![t] = "panicked" ]
  /\ alive' = (t # Main)

(***************************************************************************)
(* parse_urls                                                              *)
(***************************************************************************)
\* the force flag setup_blocker passes to parse_urls (lines 281, 283, 286)
ForceUpdate(initType) == initType = "Update"

\* the condition of lines 166-169: "update", "skip", or "panic" when the
\* expiry token does not parse
LineDecisionNoExpirySkips(line, force, ts) ==
  LET parts == Split(line, " ")
  IN  IF StartsWith(line, "#") THEN "skip"
      ELSE IF force THEN "update"
      ELSE IF Len(parts) = 1 THEN "skip"
      ELSE IF ~ParseOk(parts[2]) THEN "panic"
      ELSE IF ParseU64(parts[2]) < ts THEN "update"
      ELSE "skip"

LineDecisionLeq(line, force, ts) ==
  LET parts == Split(line, " ")
  IN  IF StartsWith(line, "#") THEN "skip"
      ELSE IF force THEN "update"
      ELSE IF Len(parts) = 1 THEN "update"
      ELSE IF ~ParseOk(parts[2]) THEN "panic"
      ELSE IF ParseU64(parts[2]) <= ts THEN "update"
      ELSE "skip"

LineDecision(line, force, ts) ==
  LET parts == Split(line, " ")
  IN  IF StartsWith(line, "#") THEN "skip"
      ELSE IF force THEN "update"
      ELSE IF Len(parts) = 1 THEN "update"
      ELSE IF ~ParseOk(parts[2]) THEN "panic"
      ELSE IF ParseU64(parts[2]) < ts THEN "update"
      ELSE "skip"

\* the URL token of a registry line (line 164)
UrlOf(line) == Split(line, " ")[1]

\* the turns of the loop of lines 161-179 that touch nothing but the locals
\* `out` and `updated`: from line idx on, every skipped line is appended to
\* the output, up to the first line that needs an update (st = "fetch"), a
\* line whose expiry does not parse (st = "panic") or the end (st = "rewrite")
RECURSIVE Advance(_, _, _, _, _)
Advance(lines, idx, out, force, ts) ==
  IF idx > Len(lines) THEN [ st |-> "rewrite", idx |-> idx, out |-> out ]
  ELSE LET d == LineDecision(lines[idx], force, ts)
       IN  IF d = "skip"
           THEN Advance(lines, idx + 1, out \o lines[idx] \o "\n", force, ts)
           ELSE [ st |-> IF d = "update" THEN "fetch" ELSE "panic", idx |-> idx, out |-> out ]

\* the locals of parse_urls after Advance: at a line that needs an update,
\* `updated` is set and update_list is called (lines 172-173)
Advanced(c, a) ==
  [ c EXCEPT !.idx = a.idx,
             !.out = a.out,
             !.updated = c.updated \/ a.st = "fetch",
             !.fetches = IF a.st = "fetch" THEN [ c.fetches EXCEPT ![a.idx] = @ + 1 ]
                         ELSE c.fetches ]

\* parse_urls, lines 146-179 and 183-186: create the registry with its
\* header, or open and read it and run the loop up to the first update
ParseUrlsOpen(t) ==
  /\ alive /\ pc[t] = "parse_urls"
  /\ IF urlsFile.ex
     THEN LET ls == ReadLines(urlsFile.data)
              c == [ call[t] EXCEPT !.lines = ls,
                                    !.timestamp = now,
                                    !.fetches = [ i \in 1..Len(ls) |-> 0 ],
                                    !.urls0 = urlsFile,
                                    !.lists0 = lists,
                                    !.bare0 = bare,
                                    !.passed = TRUE ]
              a == Advance(ls, 1, "", ForceUpdate(c.initType), now)
          IN  /\ call' = [ call EXCEPT ![t] = Advanced(c, a) ]
              /\ IF a.st = "panic" THEN Panic(t)
                 ELSE pc' = [ pc EXCEPT ![t] = a.st ] /\ UNCHANGED alive
              /\ UNCHANGED urlsFile
     ELSE /\ urlsFile' = File(UrlsHeader)
          /\ pc' = [ pc EXCEPT ![t] = "custom" ]
          /\ UNCHANGED << call, alive >>
  /\ UNCHANGED << now, stdout, lists, engineFile, blocker, resp, cmds, queries, histVars >>

(***************************************************************************)
(* update_list                                                             *)
(***************************************************************************)
\* what lines 110-117 leave in the list file: it is opened without
\* truncation and the body is written from its start
WrittenList(old, body) == OverlayKeepTail(old, body)

\* the bytes Response::write_to hands to its first write when it copies the
\* body in two writes
FirstChunk(body) == SubSeq(body, 1, Len(body) \div 2)

\* lines 108-117: the request, and the body copied to the list file; the
\* request, the open or the write fails, or the file holds the body, or
\* the first part of it when the copy takes two writes
FetchList(t) ==
  /\ alive /\ pc[t] = "fetch"
  /\ LET url == UrlOf(call[t].lines[call[t].idx])
         name == LastSegment(url)
     IN  \/ Panic(t) /\ UNCHANGED << lists, call >>
         \/ /\ url \in Urls
            /\ \E b \in Bodies :
                 /\ call' = [ call EXCEPT ![t].body = b ]
                 /\ \/ /\ lists' = [ lists EXCEPT ![name] = File(WrittenList(lists[name].data, b)) ]
                       /\ pc' = [ pc EXCEPT ![t] = "scan_list" ]
                    \/ /\ lists' = [ lists EXCEPT ![name] = File(WriteAt(lists[name].data, 0, FirstChunk(b))) ]
                       /\ pc' = [ pc EXCEPT ![t] = "write_rest" ]
            /\ UNCHANGED alive
  /\ UNCHANGED << now, stdout, urlsFile, engineFile, blocker, resp, cmds, queries, histVars >>

\* line 117, the second write of the copy: it fails, or the rest of the body
\* goes where the first write ended
WriteRest(t) ==
  /\ alive /\ pc[t] = "write_rest"
  /\ LET name == LastSegment(UrlOf(call[t].lines[call[t].idx]))
         b == call[t].body
         off == Len(FirstChunk(b))
     IN  \/ Panic(t) /\ UNCHANGED lists
         \/ /\ lists' = [ lists EXCEPT ![name] = File(WriteAt(lists[name].data, off, Drop(b, off))) ]
            /\ pc' = [ pc EXCEPT ![t] = "scan_list" ]
            /\ UNCHANGED alive
  /\ UNCHANGED << now, stdout, urlsFile, engineFile, call, blocker, resp, cmds, queries, histVars >>

\* the first of the lines that contains the marker, 0 if none (lines 122-124)
MarkerLine(ls) ==
  LET hits == { i \in 1..Len(ls) : Contains(ls[i], "! Expires: ") }
  IN  IF hits = {} THEN 0 ELSE CHOOSE i \in hits : \A j \in hits : i <= j

RewrittenLineAlwaysStamped(url, content, t) ==
  LET ls == ReadLines(content)
      m == MarkerLine(ls)
      toks == IF m = 0 THEN << >> ELSE Split(ls[m], " ")
  IN  IF m = 0 THEN [ ok |-> TRUE, line |-> url \o " " \o U64ToString(t) ]
      ELSE IF Len(toks) < 3 \/ ~ParseOk(toks[3]) THEN [ ok |-> FALSE, line |-> "" ]
      ELSE [ ok |-> TRUE,
             line |-> url \o " " \o U64ToString(ParseU64(toks[3]) * DaySecs + t) ]

\* lines 119-133: the line update_list returns for a list file of this
\* content; ok is FALSE where an unwrap panics
RewrittenLine(url, content, t) ==
  LET ls == ReadLines(content)
      m == MarkerLine(ls)
      toks == IF m = 0 THEN << >> ELSE Split(ls[m], " ")
  IN  IF m = 0 THEN [ ok |-> TRUE, line |-> url ]
      ELSE IF Len(toks) < 3 \/ ~ParseOk(toks[3]) THEN [ ok |-> FALSE, line |-> "" ]
      ELSE [ ok |-> TRUE,
             line |-> url \o " " \o U64ToString(ParseU64(toks[3]) * DaySecs + t) ]

\* what lines 181-182 leave in the registry file: the output is written from
\* the start of the file, which is not truncated
WrittenRegistry(old, out) == OverlayKeepTail(old, out)

\* the registry file while the loop of lines 161-179 runs: the loop collects
\* its output in `out` and writes nothing
RegistryInLoopWriteThrough(file, out) == File(WrittenRegistry(file.data, out))

RegistryInLoop(file, out) == file

\* lines 119-133 and 173-179: read the list file back, append the line
\* update_list returns to the output, and run the loop up to the next update
ScanList(t) ==
  /\ alive /\ pc[t] = "scan_list"
  /\ LET c == call[t]
         url == UrlOf(c.lines[c.idx])
         r == RewrittenLine(url, lists[LastSegment(url)].data, now)
         a == Advance(c.lines, c.idx + 1, c.out \o r.line \o "\n",
                      ForceUpdate(c.initType), c.timestamp)
     IN  IF r.ok
         THEN /\ call' = [ call EXCEPT ![t] = Advanced(c, a) ]
              /\ urlsFile' = RegistryInLoop(urlsFile, a.out)
              /\ bare' = IF r.line = url THEN bare \cup { url } ELSE bare \ { url }
              /\ IF a.st = "panic" THEN Panic(t)
                 ELSE pc' = [ pc EXCEPT ![t] = a.st ] /\ UNCHANGED alive
         ELSE Panic(t) /\ UNCHANGED << call, urlsFile, bare >>
  /\ UNCHANGED << now, stdout, lists, engineFile, blocker, resp, cmds, queries,
                  published, accepted, lastQuery, io >>

\* lines 181-182
RewriteRegistry(t) ==
  /\ alive /\ pc[t] = "rewrite"
  /\ urlsFile' = File(WrittenRegistry(urlsFile.data, call[t].out))
  /\ pc' = [ pc EXCEPT ![t] = "custom" ]
  /\ UNCHANGED << now, alive, stdout, lists, engineFile, call, blocker, resp, cmds, queries, histVars >>

(***************************************************************************)
(* setup_blocker and init_engine                                           *)
(***************************************************************************)
\* lines 280-287: the `updated` flag setup_blocker hands to init_engine
UpdatedFlagParsed(initType, parsed) == parsed

UpdatedFlag(initType, parsed) == initType = "Reload" \/ parsed

\* lines 289-302: create the custom filters file unless it exists
CustomFile(t) ==
  /\ alive /\ pc[t] = "custom"
  /\ lists' = IF lists["custom"].ex THEN lists
              ELSE [ lists EXCEPT !["custom"] = File(CustomHeader) ]
  /\ call' = [ call EXCEPT ![t].flag = UpdatedFlag(call[t].initType, call[t].updated),
                            ![t].arg = UpdatedFlag(call[t].initType, call[t].updated) ]
  /\ pc' = [ pc EXCEPT ![t] = "init_engine" ]
  /\ UNCHANGED << now, alive, stdout, urlsFile, engineFile, blocker, resp, cmds, queries, histVars >>

\* the orders in which read_dir may list the files of a set
Orders(S) ==
  { f \in [ 1..Cardinality(S) -> S ] : \A i, j \in 1..Cardinality(S) : f[i] = f[j] => i = j }

RECURSIVE Concat(_, _)
Concat(dir, order) ==
  IF order = << >> THEN ""
  ELSE dir[Head(order)].data \o Concat(dir, Tail(order))

\* lines 211-222: the texts the loop over read_dir may collect
Corpora(dir) == { Concat(dir, o) : o \in Orders({ n \in Names : dir[n].ex }) }

\* line 202: whether init_engine tries the cache file
TriesCacheAlways(exists, updated) == exists

TriesCache(exists, updated) == exists /\ ~updated

\* the list files another thread is in the middle of writing
BeingWritten(t) ==
  { LastSegment(UrlOf(call[a].lines[call[a].idx])) : a \in { b \in Threads \ { t } : pc[b] = "write_rest" } }

\* line 208: the `updated` argument of the call init_engine makes when the
\* cache file was not loaded
RetryFlagSame(updated) == updated

RetryFlag(updated) == TRUE

\* init_engine, lines 201-235, one call frame per step: the engine of the
\* cache file; or, when the cache file does not load, the recursive call of
\* line 208; or the engine built from the lists directory, which is then
\* written to the cache file unless serializing or writing fails
InitEngine(t) ==
  /\ alive /\ pc[t] = "init_engine"
  /\ LET c == [ call[t] EXCEPT !.frames = @ + 1,
                               !.cache0 = IF call[t].frames = 0 THEN engineFile ELSE @ ]
     IN  IF TriesCache(engineFile.ex, c.arg)
         THEN /\ c.deser < MaxCacheTries
              /\ IF LoadCache(engineFile).ok
                 THEN /\ call' = [ call EXCEPT ![t] = [ c EXCEPT !.engine = LoadCache(engineFile).engine,
                                                                  !.path = "cache",
                                                                  !.deser = @ + 1 ] ]
                      /\ pc' = [ pc EXCEPT ![t] = "return" ]
                 ELSE /\ call' = [ call EXCEPT ![t] = [ c EXCEPT !.deser = @ + 1,
                                                                  !.arg = RetryFlag(c.arg) ] ]
                      /\ UNCHANGED pc
              /\ UNCHANGED engineFile
         ELSE \E engine \in { Build(corpus) : corpus \in Corpora(lists) }, saved \in BOOLEAN :
                /\ call' = [ call EXCEPT ![t] = [ c EXCEPT !.engine = engine,
                                                            !.path = "rebuild",
                                                            !.torn = BeingWritten(t) # {},
                                                            !.rebuilds = @ + 1 ] ]
                /\ engineFile' = IF saved THEN File(Serialize(engine)) ELSE engineFile
                /\ pc' = [ pc EXCEPT ![t] = "return" ]
  /\ UNCHANGED << now, alive, stdout, urlsFile, lists, blocker, resp, cmds, queries, histVars >>

\* the sessions whose thread is running
OpenConns == { c \in Conns : pc[c] \notin { "unborn", "closed", "panicked" } }

\* setup_blocker returns: main goes on to start_server (lines 310-311), a
\* session keeps the new engine for itself and answers 0 (lines 84-85, 89-90, 97)
Return(t) ==
  /\ alive /\ pc[t] = "return"
  /\ blocker' = [ blocker EXCEPT ![t] = call[t].engine ]
  /\ call' = [ call EXCEPT ![t] = IdleCall ]
  /\ IF t = Main
     THEN /\ pc' = [ pc EXCEPT ![t] = "bind" ]
          /\ UNCHANGED << resp, published, io >>
     ELSE /\ pc' = [ pc EXCEPT ![t] = "read" ]
          /\ resp' = [ resp EXCEPT ![t] = "0" ]
          /\ published' = [ set |-> TRUE, snap |-> call[t].engine, by |-> t,
                            kind |-> IF call[t].initType = "Update" THEN "u" ELSE "r",
                            open |-> OpenConns ]
          /\ io' = [ io EXCEPT ![t] = [ ResponseWritten(@) EXCEPT
                                          !.own = [ set |-> TRUE, snap |-> call[t].engine ] ] ]
  /\ UNCHANGED << now, alive, stdout, fsVars, cmds, queries, accepted, lastQuery, bare >>

(***************************************************************************)
(* start_server                                                            *)
(***************************************************************************)
BindPrintsFirst ==
  /\ alive /\ pc[Main] = "bind"
  /\ stdout' = Append(stdout, "init-done")
  /\ \/ Panic(Main)
     \/ /\ pc' = [ pc EXCEPT ![Main] = "accept" ]
        /\ UNCHANGED alive
  /\ UNCHANGED << now, fsVars, call, blocker, resp, cmds, queries, histVars >>

\* lines 244-251: bind the socket, which may fail, and print init-done
Bind ==
  /\ alive /\ pc[Main] = "bind"
  /\ \/ Panic(Main) /\ UNCHANGED stdout
     \/ /\ stdout' = Append(stdout, "init-done")
        /\ pc' = [ pc EXCEPT ![Main] = "accept" ]
        /\ UNCHANGED alive
  /\ UNCHANGED << now, fsVars, call, blocker, resp, cmds, queries, histVars >>

\* the engine a new session is started with (line 256)
SessionEngine == blocker[Main]

\* lines 253-258: accept a connection and spawn its session
Accept(c) ==
  /\ alive /\ pc[Main] = "accept" /\ pc[c] = "unborn"
  /\ \A b \in Conns : b < c => pc[b] # "unborn"
  /\ pc' = [ pc EXCEPT ![c] = "read" ]
  /\ blocker' = [ blocker EXCEPT ![c] = SessionEngine ]
  /\ accepted' = [ accepted EXCEPT ![c] = [ set |-> TRUE, got |-> SessionEngine, want |-> published ] ]
  /\ UNCHANGED << now, alive, stdout, fsVars, call, resp, cmds, queries, published, lastQuery, bare, io >>

(***************************************************************************)
(* handle_client                                                           *)
(***************************************************************************)
\* the engine a session queries (line 44): the one it holds
QueryEngineShared(c) == blocker[Main]

QueryEngine(c) == blocker[c]

\* the line of a network query for the request URL q
NetworkLine(q) == "n " \o q \o " s t"

\* lines 36-51 and 97: a network query and its response
NetworkQuery(c) ==
  /\ alive /\ pc[c] = "read" /\ io[c].pending = NoLine /\ queries < MaxQueries
  /\ \E q \in Queries :
       /\ resp' = [ resp EXCEPT ![c] = IF Matched(QueryEngine(c), q) THEN "1" ELSE "0" ]
       /\ lastQuery' = [ lastQuery EXCEPT ![c] = [ set |-> TRUE, snap |-> QueryEngine(c), want |-> published ] ]
       /\ io' = [ io EXCEPT ![c] = [ ResponseWritten(LineRead(@, NetworkLine(q))) EXCEPT
                                       !.used = QueryEngine(c) ] ]
  /\ queries' = queries + 1
  /\ UNCHANGED << now, alive, stdout, fsVars, pc, call, blocker, cmds, published, accepted, bare >>

\* lines 82-91: an r or u line starts setup_blocker in the session's thread
StartCommand(c) ==
  /\ alive /\ pc[c] = "read" /\ io[c].pending = NoLine
  /\ \E ty \in { "Reload", "Update" } :
       /\ call' = [ call EXCEPT ![c] = NewCall(ty) ]
       /\ io' = [ io EXCEPT ![c] = LineRead(@, IF ty = "Reload" THEN "r" ELSE "u") ]
  /\ pc' = [ pc EXCEPT ![c] = "parse_urls" ]
  /\ cmds' = cmds + 1
  /\ UNCHANGED << now, alive, stdout, fsVars, blocker, resp, queries,
                  published, accepted, lastQuery, bare >>

\* an r or u line, while the clients have commands left to send
Command(c) == cmds < MaxCommands /\ StartCommand(c)

\* an r or u line as the first line of a session
FirstCommand(c) == io[c].reads = 0 /\ StartCommand(c)

\* Request::new (line 42) rejects a URL it cannot parse
RequestOk(reqUrl) == reqUrl # ""

\* lines 32-94: the arm of the match a line takes, "panic" where an unwrap
\* of a missing field or of Request::new's error panics
Handler(line) ==
  LET parts == Split(line, " ")
  IN  IF parts[1] = "n"
      THEN IF Len(parts) < 4 \/ ~RequestOk(parts[2]) THEN "panic" ELSE "network"
      ELSE IF parts[1] = "c"
      THEN IF Len(parts) < 4 THEN "panic" ELSE "cosmetic"
      ELSE IF parts[1] = "r" THEN "reload"
      ELSE IF parts[1] = "u" THEN "update"
      ELSE "unknown"

\* [String]::join
RECURSIVE Join(_, _)
Join(strs, sep) ==
  IF strs = << >> THEN ""
  ELSE IF Len(strs) = 1 THEN strs[1]
  ELSE strs[1] \o sep \o Join(Tail(strs), sep)

CosmeticResponseAlwaysSuffixed(selectors) ==
  Join(selectors, ", ") \o " { display: none !important; }" \o "\n"

\* lines 73-80: the response to a cosmetic query with these selectors
CosmeticResponse(selectors) ==
  LET style == Join(selectors, ", ")
  IN  (IF Len(style) # 0 THEN style \o " { display: none !important; }" ELSE style) \o "\n"

RECURSIVE SumOthers(_)
SumOthers(S) ==
  IF S = {} THEN 0
  ELSE LET c == CHOOSE x \in S : TRUE IN io[c].others + SumOthers(S \ { c })

\* the lines read so far that are no n, r or u line
OtherLinesRead == SumOthers(Conns)

\* lines 52-81 and 97: a cosmetic query and its response
CosmeticQuery(c) ==
  /\ alive /\ pc[c] = "read" /\ io[c].pending = NoLine /\ OtherLinesRead < MaxOtherLines
  /\ \E line \in OtherLines, sels \in SelectorLists :
       /\ Handler(line) = "cosmetic"
       /\ resp' = [ resp EXCEPT ![c] = CosmeticResponse(sels) ]
       /\ io' = [ io EXCEPT ![c] = [ ResponseWritten(LineRead(@, line)) EXCEPT
                                       !.others = @ + 1,
                                       !.used = QueryEngine(c),
                                       !.sels = sels ] ]
  /\ UNCHANGED << now, alive, stdout, fsVars, pc, call, blocker, cmds, queries,
                  published, accepted, lastQuery, bare >>

\* lines 92-94 and 97: a line whose code is none of n, c, r, u
UnknownCommand(c) ==
  /\ alive /\ pc[c] = "read" /\ io[c].pending = NoLine /\ OtherLinesRead < MaxOtherLines
  /\ \E line \in OtherLines :
       /\ Handler(line) = "unknown"
       /\ io' = [ io EXCEPT ![c] = [ ResponseWritten(LineRead(@, line)) EXCEPT !.others = @ + 1 ] ]
  /\ resp' = [ resp EXCEPT ![c] = "Unknown code supplied" ]
  /\ UNCHANGED << now, alive, stdout, fsVars, pc, call, blocker, cmds, queries,
                  published, accepted, lastQuery, bare >>

\* lines 38-42, 54-64: an n or c line with a field missing, or an n line
\* whose URL Request::new rejects: the unwrap panics in the session's thread
MalformedLine(c) ==
  /\ alive /\ pc[c] = "read" /\ io[c].pending = NoLine /\ OtherLinesRead < MaxOtherLines
  /\ \E line \in OtherLines :
       /\ Handler(line) = "panic"
       /\ io' = [ io EXCEPT ![c] = [ LineRead(@, line) EXCEPT !.others = @ + 1 ] ]
  /\ Panic(c)
  /\ UNCHANGED << now, stdout, fsVars, call, blocker, resp, cmds, queries,
                  published, accepted, lastQuery, bare >>

\* line 30: the stream ends and handle_client returns
EndOfStream(c) ==
  /\ alive /\ pc[c] = "read" /\ io[c].pending = NoLine
  /\ pc' = [ pc EXCEPT ![c] = "closed" ]
  /\ UNCHANGED << now, alive, stdout, fsVars, call, blocker, resp, cmds, queries, histVars >>

\* a client writes a network query to its connection, whatever the session
\* is doing; the line waits in the stream until the session reads it
Send(c) ==
  /\ alive /\ c \in OpenConns /\ io[c].pending = NoLine /\ queries < MaxQueries
  /\ \E q \in Queries : io' = [ io EXCEPT ![c].pending = NetworkLine(q) ]
  /\ queries' = queries + 1
  /\ UNCHANGED << now, alive, stdout, fsVars, pc, call, blocker, resp, cmds,
                  published, accepted, lastQuery, bare >>

AnswerWhenOthersIdle(c) ==
  /\ alive /\ pc[c] = "read" /\ io[c].pending # NoLine
  /\ \A a \in Conns \ { c } : pc[a] \in { "unborn", "read", "closed", "panicked" }
  /\ LET q == Split(io[c].pending, " ")[2]
     IN  /\ resp' = [ resp EXCEPT ![c] = IF Matched(QueryEngine(c), q) THEN "1" ELSE "0" ]
         /\ lastQuery' = [ lastQuery EXCEPT ![c] = [ set |-> TRUE, snap |-> QueryEngine(c), want |-> published ] ]
         /\ io' = [ io EXCEPT ![c] = [ ResponseWritten(LineRead(@, io[c].pending)) EXCEPT
                                         !.pending = NoLine,
                                         !.used = QueryEngine(c) ] ]
  /\ UNCHANGED << now, alive, stdout, fsVars, pc, call, blocker, cmds, queries, published, accepted, bare >>

\* lines 30-51 and 97: the session reads the network query that waits in
\* its stream and answers it
Answer(c) ==
  /\ alive /\ pc[c] = "read" /\ io[c].pending # NoLine
  /\ LET q == Split(io[c].pending, " ")[2]
     IN  /\ resp' = [ resp EXCEPT ![c] = IF Matched(QueryEngine(c), q) THEN "1" ELSE "0" ]
         /\ lastQuery' = [ lastQuery EXCEPT ![c] = [ set |-> TRUE, snap |-> QueryEngine(c), want |-> published ] ]
         /\ io' = [ io EXCEPT ![c] = [ ResponseWritten(LineRead(@, io[c].pending)) EXCEPT
                                         !.pending = NoLine,
                                         !.used = QueryEngine(c) ] ]
  /\ UNCHANGED << now, alive, stdout, fsVars, pc, call, blocker, cmds, queries, published, accepted, bare >>

\* the wall clock advances
Tick ==
  /\ alive /\ now < Now0 + MaxTicks
  /\ now' = now + 1
  /\ UNCHANGED << alive, stdout, fsVars, pc, call, blocker, resp, cmds, queries, histVars >>

\* a step of setup_blocker in thread t
SetupStep(t) ==
  \/ ParseUrlsOpen(t)
  \/ FetchList(t)
  \/ WriteRest(t)
  \/ ScanList(t)
  \/ RewriteRegistry(t)
  \/ CustomFile(t)
  \/ InitEngine(t)
  \/ Return(t)

SessionStep(c) ==
  \/ NetworkQuery(c)
  \/ Command(c)
  \/ EndOfStream(c)
  \/ SetupStep(c)

Next ==
  \/ Tick
  \/ SetupStep(Main)
  \/ Bind
  \/ \E c \in Conns : Accept(c)
  \/ \E c \in Conns : SessionStep(c)

Spec == Init /\ [][Next]_vars

\* the daemon with a single client: no two registry passes overlap
NextSingle ==
  \/ Tick
  \/ SetupStep(Main)
  \/ Bind
  \/ Accept(1)
  \/ SessionStep(1)

SpecSingle == Init /\ [][NextSingle]_vars

\* the daemon started on a registry with nothing to refresh and a valid
\* cache, with clients that send every kind of line
InitSession ==
  /\ Init
  /\ urlsFile = File(QuietRegistry)
  /\ engineFile = StaleCache

NextSession ==
  \/ Next
  \/ \E c \in Conns : CosmeticQuery(c)
  \/ \E c \in Conns : UnknownCommand(c)
  \/ \E c \in Conns : MalformedLine(c)

SpecSession == InitSession /\ [][NextSession]_vars

\* the daemon started on a registry with one entry that every pass
\* refreshes, with clients that each send one r or u line: the commands of
\* two sessions run at the same time
InitRace ==
  /\ Init
  /\ urlsFile = File("#c\na/x\n")
  /\ engineFile = StaleCache

NextRace ==
  \/ SetupStep(Main)
  \/ Bind
  \/ \E c \in Conns : Accept(c)
  \/ \E c \in Conns : FirstCommand(c)
  \/ \E c \in Conns : SetupStep(c)

SpecRace == InitRace /\ [][NextRace]_vars

\* the daemon with clients whose queries wait in the stream until the
\* session reads them.  Every thread that can run does run: the acceptor
\* accepts and a session answers a waiting query.  Nothing makes a list fetch
\* return, and nothing makes a client send.
NextStall ==
  \/ SetupStep(Main)
  \/ Bind
  \/ \E c \in Conns : Accept(c)
  \/ \E c \in Conns : Send(c)
  \/ \E c \in Conns : Answer(c)
  \/ \E c \in Conns : Command(c)
  \/ \E c \in Conns : EndOfStream(c)
  \/ \E c \in Conns : SetupStep(c)

SpecStall ==
  /\ InitSession
  /\ [][NextStall]_vars
  /\ \A c \in Conns : WF_vars(Accept(c))
  /\ \A c \in Conns : WF_vars(Answer(c))

(***************************************************************************)
(* Properties.                                                             *)
(***************************************************************************)
\* a thread whose registry pass has run its loop to the end
PassDone(t) == call[t].passed /\ pc[t] \in { "rewrite", "custom", "init_engine", "return" }

\* a thread right after it has rewritten the registry file
Rewritten(t) == call[t].passed /\ pc[t] = "custom"

IsComment(line) == StartsWith(line, "#")

HasExpiry(line) == Len(Split(line, " ")) >= 2 /\ ParseOk(Split(line, " ")[2])

ExpiryOf(line) == ParseU64(Split(line, " ")[2])

\* an entry whose expiry is not strictly less than the seconds ts
NotExpired(line, ts) == ~IsComment(line) /\ HasExpiry(line) /\ ExpiryOf(line) >= ts

\* an entry the registry pass has to refresh
Due(line, force, ts) ==
  /\ ~IsComment(line)
  /\ \/ force
     \/ Len(Split(line, " ")) = 1
     \/ HasExpiry(line) /\ ExpiryOf(line) < ts

ListName(line) == LastSegment(UrlOf(line))

\* no entry the pass of c refreshed, other than entry i, has the list file of entry i
OnlyWriter(c, i) ==
  \A j \in 1..Len(c.lines) :
    (j # i /\ c.fetches[j] > 0) => ListName(c.lines[j]) # ListName(c.lines[i])

\* C1: once a `u` on connection A has returned, a network query on another
\* connection B that was open at that time is evaluated against the engine
\* that `u` produced.
C1_CrossSessionVisibility ==
  \A c \in Conns :
    LET q == lastQuery[c]
    IN  (q.set /\ q.want.set /\ q.want.kind = "u" /\ q.want.by # c /\ c \in q.want.open)
          => q.snap = q.want.snap

\* C2: a connection accepted after an `r` or `u` has returned on some
\* connection starts with the engine that command produced.
C2_FutureConnectionVisibility ==
  \A c \in Conns :
    (accepted[c].set /\ accepted[c].want.set) => accepted[c].got = accepted[c].want.snap

\* C3: in a pass without the force flag, an entry whose expiry is not
\* strictly less than the seconds read at the start of the pass is skipped:
\* it is never fetched, the pass leaves its list file as it was, and its line
\* of the rewritten registry is the line that was read.
C3_UnexpiredSkipped ==
  \A t \in Threads :
    LET c == call[t]
    IN  (c.passed /\ ~ForceUpdate(c.initType)) =>
          \A i \in 1..Len(c.lines) :
            NotExpired(c.lines[i], c.timestamp) =>
              /\ c.fetches[i] = 0
              /\ OnlyWriter(c, i) /\ ListName(c.lines[i]) \in Names
                   => lists[ListName(c.lines[i])] = c.lists0[ListName(c.lines[i])]
              /\ Rewritten(t) =>
                   /\ Len(ReadLines(urlsFile.data)) >= i
                   /\ ReadLines(urlsFile.data)[i] = c.lines[i]

C3_Witness ==
  \E t \in Threads :
    /\ Rewritten(t) /\ ~ForceUpdate(call[t].initType)
    /\ \E i, j \in 1..Len(call[t].lines) :
         /\ NotExpired(call[t].lines[i], call[t].timestamp)
         /\ ExpiryOf(call[t].lines[i]) = call[t].timestamp
         /\ call[t].fetches[j] = 1

\* C4: in a registry pass that runs to its end, every non-comment entry that
\* has an expiry in the past, or no expiry token, or is processed under
\* forced update has been fetched exactly once, and no entry is ever fetched
\* twice; a comment line is never fetched, forced or not.
C4_DueFetchedOnce ==
  \A t \in Threads :
    LET c == call[t]
    IN  c.passed =>
          \A i \in 1..Len(c.lines) :
            /\ c.fetches[i] <= 1
            /\ IsComment(c.lines[i]) => c.fetches[i] = 0
            /\ (PassDone(t) /\ Due(c.lines[i], ForceUpdate(c.initType), c.timestamp))
                 => c.fetches[i] = 1

C4_Witness ==
  \E t \in Threads :
    /\ PassDone(t) /\ ForceUpdate(call[t].initType)
    /\ \E i, j \in 1..Len(call[t].lines) :
         /\ NotExpired(call[t].lines[i], call[t].timestamp) /\ call[t].fetches[i] = 1
         /\ IsComment(call[t].lines[j]) /\ call[t].fetches[j] = 0

\* the list file holds no expiry marker
NoMarker(content) ==
  \A i \in 1..Len(ReadLines(content)) : ~Contains(ReadLines(content)[i], "! Expires: ")

C6_RegistryRoundTrip ==
  \A t \in Threads :
    Rewritten(t) =>
      /\ Len(ReadLines(urlsFile.data)) = Len(call[t].lines)
      /\ ReadLines(urlsFile.data) = ReadLines(call[t].out)
      /\ \A i \in 1..Len(call[t].lines) :
           call[t].fetches[i] = 0 => ReadLines(urlsFile.data)[i] = call[t].lines[i]

\* C7: after the fetched body of an entry has been written, its list file
\* holds exactly that body.
C7_ListFileIsFetchedBody ==
  \A t \in Threads :
    pc[t] = "scan_list" =>
      lists[ListName(call[t].lines[call[t].idx])] = File(call[t].body)

\* a thread that panicked inside its registry pass
FailedInPass(t) == pc[t] = "panicked" /\ call[t].passed

\* C8: when a fetch or a list-file write fails during a registry pass, the
\* registry file is as it was when the pass began.
C8_FailedPassKeepsRegistry ==
  \A t \in Threads : FailedInPass(t) => urlsFile = call[t].urls0

C8_Witness ==
  \E t \in Threads :
    /\ FailedInPass(t)
    /\ \E j \in 1..Len(call[t].lines) :
         /\ j < call[t].idx
         /\ call[t].fetches[j] = 1
         /\ call[t].fetches[call[t].idx] = 1
         /\ lists # call[t].lists0

\* a session whose r or u command failed
CommandFailed(c) == pc[c] = "panicked" /\ call[c].initType \in { "Reload", "Update" }

\* a step in which the r or u command of session c fails
CommandFails(c) == pc[c] # "panicked" /\ pc'[c] = "panicked"

\* C9: a failure during an r or u command ends the issuing session only: the
\* process keeps running, the acceptor stays in its loop and can accept the
\* next connection, every other open session can still be answered, and the
\* failing step changes neither the engine any thread holds nor any other
\* thread.
C9_CommandFailureScoped ==
  /\ [](\A c \in Conns :
          CommandFailed(c) =>
            /\ alive
            /\ pc[Main] = "accept"
            /\ \A b \in Conns :
                 /\ (pc[b] = "unborn" /\ \A a \in Conns : a < b => pc[a] # "unborn")
                      => ENABLED Accept(b)
                 /\ (pc[b] = "read" /\ queries < MaxQueries) => ENABLED NetworkQuery(b))
  /\ [][\A c \in Conns :
          CommandFails(c) =>
            /\ blocker' = blocker
            /\ resp' = resp
            /\ \A b \in Threads \ { c } : pc'[b] = pc[b]]_vars

C9_Witness ==
  \E c, b \in Conns :
    /\ CommandFailed(c)
    /\ pc[b] = "read"
    /\ lastQuery[b].set
    /\ blocker[b] = blocker[Main]

\* the engines a build from the lists directory may produce
Builds(dir) == { Build(corpus) : corpus \in Corpora(dir) }

\* C10: when init_engine is told that the registry pass refreshed nothing and
\* the cache file exists and deserializes, it returns the deserialized engine
\* without reading the lists directory and leaves the cache file alone; when
\* it is told that an entry was refreshed, it does not read the cache file
\* and returns the engine built from the lists directory. At startup it is
\* told what the registry pass reported.
C10_CacheDecision ==
  \A t \in Threads :
    LET c == call[t]
    IN  pc[t] = "return" =>
          /\ c.initType = "Default" => c.flag = c.updated
          /\ (~c.flag /\ c.cache0.ex /\ Deserialize(c.cache0.data).ok) =>
               /\ c.engine = Deserialize(c.cache0.data).engine
               /\ c.rebuilds = 0
               /\ engineFile = c.cache0
          /\ c.flag =>
               /\ c.deser = 0
               /\ c.rebuilds = 1
               /\ c.engine \in Builds(lists)

C10_Witness ==
  /\ pc[Main] = "return"
  /\ call[Main].passed /\ ~call[Main].updated
  /\ call[Main].path = "cache"
  /\ call[Main].engine # Build(Concat(lists, << "custom", "x" >>))

\* C11: an `r` command that returns has taken the rebuild path, once, without
\* reading the cache file, and its engine is built from the lists directory
\* as it is then (the custom filters included), also when its registry pass
\* refreshed nothing and the cache file is valid.
C11_ReloadRebuilds ==
  \A t \in Conns :
    (pc[t] = "return" /\ call[t].initType = "Reload") =>
      /\ call[t].path = "rebuild"
      /\ call[t].deser = 0
      /\ call[t].rebuilds = 1
      /\ call[t].engine \in Builds(lists)

C11_Witness ==
  \E t \in Conns :
    /\ pc[t] = "return" /\ call[t].initType = "Reload"
    /\ call[t].passed /\ ~call[t].updated
    /\ call[t].cache0.ex /\ LoadCache(call[t].cache0).ok
    /\ call[t].engine # LoadCache(call[t].cache0).engine
    /\ "c" \in call[t].engine

\* C12: a `u` command that returns has taken the rebuild path without reading
\* the cache file, and its engine is built from the lists directory as it is
\* then, whatever the registry holds.
C12_UpdateRebuilds ==
  \A t \in Conns :
    (pc[t] = "return" /\ call[t].initType = "Update") =>
      /\ call[t].path = "rebuild"
      /\ call[t].deser = 0
      /\ call[t].engine \in Builds(lists)

\* C17: one call of init_engine tries to load the cache file at most once
\* and builds from the lists at most once, in at most two call frames; when
\* it is told that nothing was refreshed and the cache file exists but cannot
\* be read or deserialized, it builds exactly once and returns the engine
\* built from the lists directory.
C17_BoundedCacheFallback ==
  \A t \in Threads :
    LET c == call[t]
    IN  /\ c.deser <= 1
        /\ c.rebuilds <= 1
        /\ c.frames <= 2
        /\ pc[t] = "return" =>
             /\ c.deser + c.rebuilds >= 1
             /\ (~c.flag /\ c.cache0.ex /\ ~LoadCache(c.cache0).ok) =>
                  /\ c.deser = 1
                  /\ c.rebuilds = 1
                  /\ c.frames = 2
                  /\ c.path = "rebuild"
                  /\ c.engine \in Builds(lists)

C17_Witness ==
  \E t \in Threads :
    /\ pc[t] = "return"
    /\ call[t].cache0 = File(CorruptCache)
    /\ call[t].deser = 1 /\ call[t].rebuilds = 1
    /\ engineFile = File(Serialize(call[t].engine))

\* a line with every field its code needs
WellFormed(line) == Handler(line) # "panic"

\* the session is not at work on the last line it read
Settled(c) == pc[c] \in { "read", "closed", "panicked" }

\* C13: every well-formed line a session has read is answered by exactly
\* one response before the session reads its next line or ends: the
\* response to `r` and to `u` is `0`, the response to `n` is `1` or `0`,
\* and the response to a line with an unknown code is `Unknown code supplied`.
C13_OneResponsePerLine ==
  \A c \in Conns :
    LET r == io[c]
    IN  /\ r.writes <= r.reads
        /\ r.reads <= r.writes + 1
        /\ (r.reads > 0 /\ WellFormed(r.line) /\ Settled(c)) =>
             /\ r.writes = r.reads
             /\ Handler(r.line) \in { "reload", "update" } => resp[c] = "0"
             /\ Handler(r.line) = "network" => resp[c] \in { "0", "1" }
             /\ Handler(r.line) = "unknown" => resp[c] = "Unknown code supplied"

\* a session that has ended on a malformed line
LineFailed(c) == pc[c] = "panicked" /\ io[c].reads > 0 /\ Handler(io[c].line) = "panic"

\* a step in which session c reads a malformed line
LineFails(c) == pc[c] = "read" /\ pc'[c] = "panicked"

\* C14: a malformed n or c line ends the session that read it, without a
\* response, and nothing else: the process keeps running, the acceptor stays
\* in its loop and can accept the next connection, every other open session
\* can still be answered, and the step changes no engine, no file, no other
\* thread and no other session's response; once the acceptor runs, no step
\* of a session ends the process.
C14_MalformedLineScoped ==
  /\ [](\A c \in Conns :
          LineFailed(c) =>
            /\ alive
            /\ pc[Main] = "accept"
            /\ \A b \in Conns :
                 /\ (pc[b] = "unborn" /\ \A a \in Conns : a < b => pc[a] # "unborn")
                      => ENABLED Accept(b)
                 /\ (pc[b] = "read" /\ queries < MaxQueries) => ENABLED NetworkQuery(b))
  /\ [](\A c \in Conns :
          (io[c].reads > 0 /\ Handler(io[c].line) = "panic") => pc[c] = "panicked")
  /\ [](pc[Main] = "accept" => alive)
  /\ [][\A c \in Conns :
          LineFails(c) =>
            /\ blocker' = blocker
            /\ fsVars' = fsVars
            /\ \A b \in Threads \ { c } : pc'[b] = pc[b]
            /\ \A b \in Conns : resp'[b] = resp[b]]_vars

C14_Witness ==
  \E c, b \in Conns :
    /\ LineFailed(c)
    /\ pc[b] = "read"
    /\ Handler(io[b].line) = "network" /\ io[b].writes = 1
    /\ blocker[b] = blocker[Main]

\* C15: the response to a cosmetic query ends with a newline; it is the
\* newline alone when there is no selector or the joined selectors are
\* empty, and otherwise the selectors joined with `, `, followed by
\* ` { display: none !important; }` and the newline.
C15_CosmeticFormat ==
  \A c \in Conns :
    (Handler(io[c].line) = "cosmetic" /\ io[c].writes = io[c].reads) =>
      LET sels == io[c].sels
          joined == Join(sels, ", ")
          suffixed == Contains(resp[c], " { display: none !important; }")
      IN  /\ Ch(resp[c], Len(resp[c])) = "\n"
          /\ sels = << >> => resp[c] = "\n"
          /\ suffixed <=> joined # ""
          /\ joined = "" => resp[c] = "\n"
          /\ joined # "" => resp[c] = joined \o " { display: none !important; }\n"
          /\ sels = << "a.b", "#c" >> => resp[c] = "a.b, #c { display: none !important; }\n"

C15_Witness ==
  \E c \in Conns :
    /\ Handler(io[c].line) = "cosmetic" /\ io[c].sels = << "a.b", "#c" >>
    /\ resp[c] = "a.b, #c { display: none !important; }\n"

\* a step in which a session answers an n line, a c line or an unknown line
AnswersQuery ==
  \E c \in Conns :
    /\ pc[c] = "read" /\ pc'[c] = "read"
    /\ io'[c].reads = io[c].reads + 1

\* C20: an n or c query of a session that has had an r or u command return
\* is evaluated against the engine its most recent such command produced;
\* answering an n line, a c line or an unknown line changes neither the
\* engine any session holds nor the registry, the list files or the cache.
C20_SessionSnapshot ==
  /\ [](\A c \in Conns :
          (/\ Handler(io[c].line) \in { "network", "cosmetic" }
           /\ io[c].writes = io[c].reads
           /\ io[c].own.set) => io[c].used = io[c].own.snap)
  /\ [][AnswersQuery => (blocker' = blocker /\ fsVars' = fsVars)]_vars

C20_Witness ==
  \E c \in Conns :
    /\ Handler(io[c].line) = "cosmetic"
    /\ io[c].own.set
    /\ io[c].used = io[c].own.snap
    /\ io[c].used # blocker[Main]

\* C16: `init-done` is printed at most once, by the step that has bound the
\* socket, after setup_blocker has returned the startup engine; it has been
\* printed exactly when the acceptor runs, so before any connection is
\* accepted, and it is never printed by a process whose startup failed.
C16_ReadinessOrdering ==
  /\ [](/\ Len(stdout) <= 1
        /\ \A i \in 1..Len(stdout) : stdout[i] = "init-done"
        /\ stdout # << >> <=> pc[Main] = "accept"
        /\ stdout # << >> => call[Main] = IdleCall
        /\ (\E c \in Conns : pc[c] # "unborn") => stdout = << "init-done" >>
        /\ pc[Main] = "panicked" => stdout = << >>)
  /\ [][stdout' # stdout => (pc[Main] = "bind" /\ pc'[Main] = "accept")]_vars

C16_Witness ==
  /\ stdout = << "init-done" >>
  /\ \A c \in Conns : pc[c] = "read"
  /\ blocker[Main] = Build(Concat(lists, << "custom", "x" >>))

\* C18: when the r or u commands of two sessions run at the same time, the
\* engine each of them returns is built from list files that are completely
\* written: none of the files it read was in the middle of being written by
\* the other command.
C18_ConcurrentRebuildSafe ==
  \A t \in Conns : pc[t] = "return" => ~call[t].torn

\* C19: whatever the other sessions do, also when one of them never returns
\* from a list fetch or never gets a line, a query that waits in the stream
\* of a session that is reading is eventually read and answered, and once
\* the acceptor runs every connection is eventually accepted.
C19_BlockedSessionIsolated ==
  /\ \A b \in Conns :
       (pc[b] = "read" /\ io[b].pending # NoLine)
         ~> (io[b].pending = NoLine /\ io[b].writes = io[b].reads)
  /\ (pc[Main] = "accept") ~> (\A c \in Conns : pc[c] # "unborn")

C19_Witness ==
  \E a, b \in Conns :
    /\ a < b
    /\ pc[a] = "fetch"
    /\ pc[b] = "read"
    /\ Handler(io[b].line) = "network" /\ io[b].writes = 1
====
